---- MODULE Spec2Model ----
(***************************************************************************)
(* Model of app/main.py: the in-memory session registry (_clients), the   *)
(* SSE event generator with its heartbeat task, and the JSON-RPC          *)
(* dispatcher (handle_jsonrpc_envelope / handle_jsonrpc_one / tools_call).*)
(*                                                                         *)
(* Granularity.  The server runs on one asyncio event loop, so a step of  *)
(* the model is the code a task runs between two suspensions.  Every      *)
(* `async with _client_lock` body is free of awaits, so the lock is never *)
(* contended and acquiring it never suspends; `await q.put(..)` on an     *)
(* unbounded asyncio.Queue never suspends either.  Hence a POST, once its *)
(* body has been read, runs to completion in one step, and the generator  *)
(* suspends only in `await queue.get()` and at its yields.                *)
(***************************************************************************)
EXTENDS Integers, Sequences, FiniteSets, TLC

\* ---------------------------------------------------------------------
\* Bounds of the model
\* ---------------------------------------------------------------------
NStreams == 3
MaxQueues == 2
MaxEnq == 2
MaxTime == 30
MaxN == 200

Streams == 1..NStreams
QueueIds == 1..MaxQueues
ClientIds == {"a", "b"}

\* ---------------------------------------------------------------------
\* Program constants
\* ---------------------------------------------------------------------
HEARTBEAT_INTERVAL_SEC == 15
CODE_PARSE_ERROR == 0 - 32700
CODE_INVALID_REQUEST == 0 - 32600
CODE_METHOD_NOT_FOUND == 0 - 32601
CODE_SERVER_ERROR == 0 - 32000

\* ---------------------------------------------------------------------
\* JSON values as the request body carries them.  A Python dict is an
\* object whose field map f has exactly the keys that are present.
\* ---------------------------------------------------------------------
None == [t |-> "null"]
JStr(s) == [t |-> "str", s |-> s]
JNum(n) == [t |-> "num", n |-> n]
JBool(b) == [t |-> "bool", b |-> b]
JArr(a) == [t |-> "arr", a |-> a]
JObj(f) == [t |-> "obj", f |-> f]
EmptyDict == JObj([k \in {} |-> None])
Unparsable == [t |-> "unparsable"]

\* marker used only to build objects with optional keys
Absent == [t |-> "absent"]

\* the dict with the given <<key, value>> pairs, Absent values left out
Dict(pairs) ==
    LET present == {p \in pairs : p[2] # Absent}
    IN JObj([k \in {p[1] : p \in present} |->
                (CHOOSE p \in present : p[1] = k)[2]])

IsDict(v) == v.t = "obj"
IsList(v) == v.t = "arr"

\* dict.get(key): None when the key is missing
Get(d, k) == IF k \in DOMAIN d.f THEN d.f[k] ELSE None

\* Python truthiness, as used by `x or default` and `if x:`
Truthy(v) ==
    CASE v.t = "null" -> FALSE
      [] v.t = "bool" -> v.b
      [] v.t = "num" -> v.n # 0
      [] v.t = "str" -> v.s # ""
      [] v.t = "arr" -> Len(v.a) > 0
      [] v.t = "obj" -> DOMAIN v.f # {}

\* `x or default`
OrElse(v, default) == IF Truthy(v) THEN v ELSE default

\* str(n) for the integers the model prints
DigitStr == <<"1", "2", "3", "4", "5", "6", "7", "8", "9">>
IntStr(n) == IF n = 0 THEN "0" ELSE DigitStr[n]

\* str(v) / f"{v}" of a Python value
PyStr(v) ==
    CASE v.t = "null" -> "None"
      [] v.t = "bool" -> IF v.b THEN "True" ELSE "False"
      [] v.t = "num" -> IF v.n \in 0..9 THEN IntStr(v.n) ELSE "<int>"
      [] v.t = "str" -> v.s
      [] v.t = "arr" -> "<list>"
      [] v.t = "obj" -> "<dict>"

\* ---------------------------------------------------------------------
\* Utilities
\* ---------------------------------------------------------------------
json_result(req_id, result) ==
    [jsonrpc |-> "2.0", id |-> req_id, result |-> result]

\* json_error that drops the request's identifier
json_error_without_id(req_id, code, message) ==
    [jsonrpc |-> "2.0", id |-> None,
     error |-> [code |-> code, message |-> message]]

json_error(req_id, code, message) ==
    [jsonrpc |-> "2.0", id |-> req_id,
     error |-> [code |-> code, message |-> message]]

Abs(n) == IF n < 0 THEN 0 - n ELSE n

\* an inner loop that keeps the last digit only
DigitSum_last_digit(n) == n % 10

RECURSIVE DigitSum(_)
\* inner loop of reduce_to_single_digit: s += n % 10; n //= 10 while n > 0
DigitSum(n) == IF n > 0 THEN (n % 10) + DigitSum(n \div 10) ELSE 0

RECURSIVE ReduceLoop(_)
\* outer loop: while n >= 10: n = digit sum of n
ReduceLoop(n) == IF n >= 10 THEN ReduceLoop(DigitSum(n)) ELSE n

reduce_to_single_digit(n) == ReduceLoop(Abs(n))

\* int(s) for the string literals the model submits; anything else raises
IntLiterals == [s \in {"38", "-38", "7"} |->
                   CASE s = "38" -> 38 [] s = "-38" -> 0 - 38 [] s = "7" -> 7]

\* int(v): [ok, n]; ok = FALSE when int() raises (TypeError / ValueError)
PyInt(v) ==
    CASE v.t = "num" -> [ok |-> TRUE, n |-> v.n]
      [] v.t = "bool" -> [ok |-> TRUE, n |-> IF v.b THEN 1 ELSE 0]
      [] v.t = "str" -> IF v.s \in DOMAIN IntLiterals
                          THEN [ok |-> TRUE, n |-> IntLiterals[v.s]]
                          ELSE [ok |-> FALSE, n |-> 0]
      [] OTHER -> [ok |-> FALSE, n |-> 0]

\* ---------------------------------------------------------------------
\* State
\* ---------------------------------------------------------------------
VARIABLES
    clients,     \* _clients: client id -> queue object (NoQueue: key missing)
    queue,       \* contents of each asyncio.Queue object
    nextq,       \* number of Queue objects constructed so far
    lock,        \* _client_lock: "free" or "held"
    last_debug,  \* _last_debug (last_request, last_response)
    gstate,      \* per stream: "new" (no GET yet), "active", "terminated"
    gid,         \* per stream: the client_id its generator was created with
    gqueue,      \* per stream: the queue returned by _register_client
    hb,          \* per stream: heartbeat task "none", "running", "cancelled"
    emitted,     \* per stream: the frames yielded so far
    http,        \* the last POST exchange: body, status code, content
    enq,         \* history: everything ever put on each Queue object
    lastReg,     \* history: per id, the queue _register_client returned
                 \* last, NoQueue once _unregister_client ran for the id
    owed,        \* history: per stream, whether a successful tools/call
                 \* named its client id while it was active
    now,         \* the event loop's clock, in seconds
    due,         \* per stream: when its heartbeat task's sleep ends
    hbAt         \* history: per Queue object, when each heartbeat was put

vars == <<clients, queue, nextq, lock, last_debug, gstate, gid, gqueue, hb,
          emitted, http, enq, lastReg, owed, now, due, hbAt>>

NoQueue == 0

\* uuid.uuid4().hex of the GET served by stream st: unique per request
Uuid(st) == "uuid" \o IntStr(st)
AllIds == ClientIds \cup {Uuid(st) : st \in Streams}

\* The part of the state the request handlers read and write, threaded
\* through the sequential code of one request.
World == [clients |-> clients, queue |-> queue, nextq |-> nextq,
          enq |-> enq, last_debug |-> last_debug, owed |-> owed]

\* ---------------------------------------------------------------------
\* Session registry
\* ---------------------------------------------------------------------
\* _clients.get(key) for a key of any JSON type that is hashable
Lookup(cl, key) ==
    IF key.t = "str" /\ key.s \in AllIds THEN cl[key.s] ELSE NoQueue

\* _register_client without the `if q is None` test
_register_client_always_new(w, client_id) ==
    [w |-> [w EXCEPT !.clients[client_id] = w.nextq + 1, !.nextq = w.nextq + 1],
     q |-> w.nextq + 1]

\* _register_client: the registered queue, or a newly constructed one
_register_client(w, client_id) ==
    IF w.clients[client_id] = NoQueue
      THEN [w |-> [w EXCEPT !.clients[client_id] = w.nextq + 1,
                            !.nextq = w.nextq + 1],
            q |-> w.nextq + 1]
      ELSE [w |-> w, q |-> w.clients[client_id]]

\* _unregister_client that removes nothing
_unregister_client_keep(cl, client_id) == cl

\* _unregister_client: _clients.pop(client_id, None)
_unregister_client(cl, client_id) == [cl EXCEPT ![client_id] = NoQueue]

\* q.put(item) on an unbounded queue
Put(w, q, item) ==
    [w EXCEPT !.queue[q] = Append(@, item), !.enq[q] = Append(@, item)]

\* _emit_sse that registers the id when it is unknown
_emit_sse_creating(w, client_id, payload) ==
    IF client_id.t = "str" /\ client_id.s \in AllIds
      THEN LET r == _register_client(w, client_id.s)
           IN Put(r.w, r.q, payload)
      ELSE w

\* _emit_sse: non-creating lookup, then put; nothing when the id is unknown
_emit_sse(w, client_id, payload) ==
    LET q == Lookup(w.clients, client_id)
    IN IF q # NoQueue THEN Put(w, q, payload) ELSE w

\* ---------------------------------------------------------------------
\* tools/list and tools/call
\* ---------------------------------------------------------------------
ToolSchema(field, type) ==
    [type |-> "object", properties |-> <<[name |-> field, type |-> type]>>,
     required |-> <<field>>, additionalProperties |-> FALSE]

tools_list ==
    [tools |-> << [name |-> "digits", input_schema |-> ToolSchema("number", "integer")],
                  [name |-> "echo", input_schema |-> ToolSchema("text", "string")] >>]

\* outcomes of a call that may raise
Ok(w, result) == [kind |-> "ok", w |-> w, result |-> result]
RaiseHTTP(w, detail) == [kind |-> "http", w |-> w, detail |-> detail]
RaiseOther(w, msg) == [kind |-> "exc", w |-> w, detail |-> msg]

TextContent(text) == [content |-> <<[type |-> "text", text |-> text]>>]

\* `key in args` is defined for dicts (keys) and lists (elements); for an
\* int or a bool it raises TypeError
CanContain(args) == args.t \in {"obj", "arr"}
In(key, args) ==
    IF args.t = "obj" THEN key \in DOMAIN args.f
    ELSE \E i \in 1..Len(args.a) : args.a[i] = JStr(key)

\* the notification pushed by tools_call
ToolResultMsg(name, result, client_id) ==
    [type |-> "tool_result", tool |-> name, result |-> result,
     client_id |-> client_id]

\* history only: the active streams opened with this client id are owed
\* a notification
Owe(w, client_id) ==
    [w EXCEPT !.owed = [st \in Streams |->
        IF gstate[st] = "active" /\ client_id = JStr(gid[st])
          THEN TRUE ELSE w.owed[st]]]

\* tail of tools_call: `if client_id: await _emit_sse(...)`, `return result`
NotifyAndReturn(w, name, client_id, result) ==
    IF Truthy(client_id)
      THEN IF client_id.t \in {"arr", "obj"}
             THEN RaiseOther(w, "unhashable type")
             ELSE Ok(Owe(_emit_sse(w, client_id,
                             ToolResultMsg(name, result, client_id)), client_id),
                     result)
      ELSE Ok(w, result)

\* the digits tool without any check of its argument
CallDigits_unchecked(w, args, client_id) ==
    NotifyAndReturn(w, JStr("digits"), client_id, TextContent("0"))

CallDigits(w, args, client_id) ==
    IF ~CanContain(args) THEN RaiseOther(w, "argument is not iterable")
    ELSE IF ~In("number", args)
      THEN RaiseHTTP(w, "'arguments.number' is required")
    ELSE IF args.t # "obj" \/ ~PyInt(args.f["number"]).ok
      THEN RaiseHTTP(w, "'number' must be integer")
    ELSE NotifyAndReturn(w, JStr("digits"), client_id,
            TextContent(IntStr(reduce_to_single_digit(PyInt(args.f["number"]).n))))

\* the echo tool notifying the session before it checks its argument
CallEcho_notify_first(w, args, client_id) ==
    IF ~CanContain(args) \/ ~In("text", args) \/ args.t # "obj"
      THEN RaiseHTTP(_emit_sse(w, client_id,
                        ToolResultMsg(JStr("echo"), TextContent(""), client_id)),
                     "'arguments.text' is required")
      ELSE NotifyAndReturn(w, JStr("echo"), client_id,
              TextContent(PyStr(args.f["text"])))

CallEcho(w, args, client_id) ==
    IF ~CanContain(args) THEN RaiseOther(w, "argument is not iterable")
    ELSE IF ~In("text", args)
      THEN RaiseHTTP(w, "'arguments.text' is required")
    ELSE IF args.t # "obj"
      THEN RaiseOther(w, "list indices must be integers")
    ELSE NotifyAndReturn(w, JStr("echo"), client_id,
            TextContent(PyStr(args.f["text"])))

\* the client id read from `arguments` instead of `params`
ClientIdOf_from_arguments(params, args) ==
    IF IsDict(args) THEN Get(args, "client_id") ELSE None

\* client_id = params.get("client_id")
ClientIdOf(params, args) == Get(params, "client_id")

tools_call(w, params) ==
    IF ~IsDict(params) THEN RaiseHTTP(w, "params must be an object")
    ELSE LET name == Get(params, "name")
             args == OrElse(Get(params, "arguments"), EmptyDict)
             client_id == ClientIdOf(params, args)
         IN CASE name = JStr("digits") -> CallDigits(w, args, client_id)
              [] name = JStr("echo") -> CallEcho(w, args, client_id)
              [] OTHER -> RaiseHTTP(w, "Unknown tool: " \o PyStr(name))

\* ---------------------------------------------------------------------
\* JSON-RPC dispatcher
\* ---------------------------------------------------------------------
InitializeResult ==
    [protocolVersion |-> "2024-11-05",
     capabilities |-> [tools |-> [listChanged |-> TRUE]],
     serverInfo |-> [name |-> "ab-compat-railway-mcp", version |-> "0.3.0"]]

\* _last_debug["last_request"] = payload
RecordRequest(w, payload) == [w EXCEPT !.last_debug.last_request = payload]
\* _last_debug["last_response"] = result
RecordResponse(w, result) == [w EXCEPT !.last_debug.last_response = result]

Returned(w, resp) == [raised |-> FALSE, w |-> w, resp |-> resp]
Propagated(w) == [raised |-> TRUE, w |-> w, resp |-> None]

\* a handler that cannot raise: record the request, the result, answer
Answer(w, payload, req_id, result) ==
    Returned(RecordResponse(RecordRequest(w, payload), result),
             json_result(req_id, result))

\* the tools/call branch with the two except clauses around it
AnswerToolsCall(w, payload, req_id, params) ==
    LET r == tools_call(RecordRequest(w, payload), params)
    IN CASE r.kind = "ok" ->
              Returned(RecordResponse(r.w, r.result), json_result(req_id, r.result))
         [] r.kind = "http" ->
              Returned(r.w, json_error(req_id, CODE_SERVER_ERROR,
                                       "HTTP error: " \o r.detail))
         [] r.kind = "exc" ->
              Returned(r.w, json_error(req_id, CODE_SERVER_ERROR,
                                       "Server error: " \o r.detail))

\* `method in ("tools/list", "tools.list")`
IsToolsList(method) == method \in {JStr("tools/list"), JStr("tools.list")}

\* tools/call routed under its slash spelling only
IsToolsCall_slash_only(method) == method = JStr("tools/call")

\* `method in ("tools/call", "tools.call")`
IsToolsCall(method) == method \in {JStr("tools/call"), JStr("tools.call")}

\* handle_jsonrpc_one.  payload.get on a value that is not a dict raises
\* AttributeError before the try block, so it leaves the function.
handle_jsonrpc_one(w, payload) ==
    IF ~IsDict(payload) THEN Propagated(w)
    ELSE LET req_id == Get(payload, "id")
             jsonrpc_ver == OrElse(Get(payload, "jsonrpc"), JStr("2.0"))
             method == Get(payload, "method")
             params == OrElse(Get(payload, "params"), EmptyDict)
         IN IF jsonrpc_ver # JStr("2.0")
              THEN Returned(w, json_error(req_id, CODE_INVALID_REQUEST,
                                  "Invalid Request: jsonrpc must be '2.0'"))
            ELSE IF method = JStr("initialize")
              THEN Answer(w, payload, req_id, InitializeResult)
            ELSE IF method = JStr("notifications/initialized")
              THEN Answer(w, payload, req_id, [ok |-> TRUE])
            ELSE IF IsToolsList(method)
              THEN Answer(w, payload, req_id, tools_list)
            ELSE IF IsToolsCall(method)
              THEN AnswerToolsCall(w, payload, req_id, params)
            ELSE Returned(w, json_error(req_id, CODE_METHOD_NOT_FOUND,
                                        "Method not found"))

RECURSIVE HandleBatch(_, _)
\* [await handle_jsonrpc_one(entry) for entry in body]: entries in order,
\* each on the state the previous one left; an exception ends the loop
HandleBatch(w, entries) ==
    IF entries = <<>> THEN [raised |-> FALSE, w |-> w, results |-> <<>>]
    ELSE LET first == handle_jsonrpc_one(w, Head(entries))
         IN IF first.raised
              THEN [raised |-> TRUE, w |-> first.w, results |-> <<>>]
              ELSE LET rest == HandleBatch(first.w, Tail(entries))
                   IN [raised |-> rest.raised, w |-> rest.w,
                       results |-> <<first.resp>> \o rest.results]

HttpResponse(w, status, content) ==
    [w |-> w, status |-> status, content |-> content]

\* handle_jsonrpc_envelope, as POST /sse and POST / serve it; an exception
\* that leaves the handler is answered by the framework with a 500
handle_jsonrpc_envelope(w, body) ==
    IF body = Unparsable
      THEN HttpResponse(w, 400, json_error(None, CODE_PARSE_ERROR, "Parse error"))
    ELSE IF IsList(body)
      THEN LET r == HandleBatch(w, body.a)
           IN IF r.raised
                THEN HttpResponse(r.w, 500, JStr("Internal Server Error"))
                ELSE HttpResponse(r.w, 200, JArr(r.results))
    ELSE IF IsDict(body)
      THEN LET r == handle_jsonrpc_one(w, body)
           IN HttpResponse(r.w, 200, r.resp)
    ELSE HttpResponse(w, 400, json_error(None, CODE_INVALID_REQUEST,
                              "Invalid Request: must be object or array"))

\* ---------------------------------------------------------------------
\* Request bodies the model submits
\* ---------------------------------------------------------------------
\* params of a tools/call; Absent leaves the key out
CallParams(name, arguments, client_id) ==
    Dict({<<"name", name>>, <<"arguments", arguments>>, <<"client_id", client_id>>})

\* one JSON-RPC request object; Absent leaves the key out
Request(id, jsonrpc, method, params) ==
    Dict({<<"id", id>>, <<"jsonrpc", jsonrpc>>, <<"method", method>>,
          <<"params", params>>})

EchoArgs(text) == JObj([text |-> JStr(text)])
DigitsArgs(number) == JObj([number |-> number])

ToolsCall(id, method, name, arguments, client_id) ==
    Request(id, JStr("2.0"), JStr(method), CallParams(JStr(name), arguments, client_id))

\* tools/call requests that succeed: naming a client id in `params`, naming
\* none, and carrying one inside `arguments` instead
PushBodies ==
    {ToolsCall(JNum(1), "tools/call", "echo", EchoArgs("hello"), JStr("a")),
     ToolsCall(JNum(2), "tools.call", "digits", DigitsArgs(JNum(9999)), JStr("b")),
     ToolsCall(JNum(3), "tools/call", "echo", EchoArgs("hello"), Absent),
     ToolsCall(JNum(4), "tools/call", "echo",
               JObj([text |-> JStr("hello"), client_id |-> JStr("a")]), Absent)}

\* the values tried for the "jsonrpc" key: missing, right, wrong and falsy
VersionValues == {Absent, JStr("2.0"), JStr("1.0"), JNum(2), JStr(""), None}

HandledMethods == {"initialize", "notifications/initialized", "tools/list", "tools/call"}

\* the slash spellings, their dot spellings, an unknown name, no name
MethodValues ==
    {JStr(m) : m \in HandledMethods}
    \cup {JStr("notifications.initialized"), JStr("tools.list"), JStr("tools.call"),
          JStr("bogus/method"), Absent}

EchoToA == CallParams(JStr("echo"), EchoArgs("hello"), JStr("a"))

\* params of tools/call: good ones and every way the call is refused
CallParamValues ==
    {Absent, JArr(<<JNum(1)>>), EchoToA,
     CallParams(JStr("digits"), DigitsArgs(JNum(0)), Absent),
     CallParams(JStr("digits"), DigitsArgs(JStr("-38")), Absent),
     CallParams(JStr("digits"), DigitsArgs(JStr("abc")), JStr("a")),
     CallParams(JStr("digits"), EchoArgs("hello"), JStr("a")),
     CallParams(JStr("digits"), Absent, Absent),
     CallParams(JStr("digits"), JNum(5), Absent),
     CallParams(JStr("echo"), DigitsArgs(JNum(7)), JStr("a")),
     CallParams(JStr("echo"), JArr(<<JStr("text")>>), Absent),
     CallParams(JStr("echo"), EchoArgs("hello"), JArr(<<JStr("a")>>)),
     CallParams(JStr("reduce_digits"), DigitsArgs(JNum(7)), JStr("a")),
     CallParams(Absent, EchoArgs("hello"), JStr("a"))}

SingleBodies ==
    {Request(JNum(1), v, JStr(m), CallParams(JStr("echo"), EchoArgs("hello"), Absent)) :
        v \in VersionValues, m \in {"initialize", "tools/call"}}
    \cup {Request(i, JStr("2.0"), m, EchoToA) :
            i \in {Absent, JStr("x")}, m \in MethodValues}
    \cup {Request(JNum(1), JStr("2.0"), JStr("tools/call"), p) : p \in CallParamValues}
    \cup {Request(None, JStr("2.0"), JStr("tools.call"), p) :
            p \in {Absent, CallParams(JStr("digits"), DigitsArgs(JNum(0)), Absent),
                   CallParams(JStr("reduce_digits"), DigitsArgs(JNum(7)), JStr("a"))}}

\* elements of a batch: sound ones and malformed ones
BatchEntries ==
    {JStr("junk"),
     Request(JNum(1), JStr("2.0"), JStr("tools/call"), EchoToA),
     ToolsCall(JNum(2), "tools/call", "digits", DigitsArgs(JNum(9999)), Absent),
     Request(JNum(3), JStr("1.0"), JStr("tools/list"), Absent),
     Request(JStr("x"), JStr("2.0"), JStr("bogus/method"), Absent),
     ToolsCall(None, "tools/call", "reduce_digits", DigitsArgs(JNum(7)), JStr("a"))}

BatchBodies ==
    {JArr(<<>>)} \cup {JArr(<<e>>) : e \in BatchEntries}
    \cup {JArr(<<e1, e2>>) : e1 \in BatchEntries, e2 \in BatchEntries}

\* bodies that are neither an object nor an array, and one that is not JSON
ScalarBodies == {JStr("x"), JNum(3), JBool(TRUE), None, Unparsable}

DispatchBodies == SingleBodies \cup BatchBodies \cup ScalarBodies

\* ---------------------------------------------------------------------
\* Initial state: the module has just been imported
\* ---------------------------------------------------------------------
NoExchange == [body |-> Absent, status |-> 0, content |-> None]

Init ==
    /\ clients = [c \in AllIds |-> NoQueue]
    /\ queue = [q \in QueueIds |-> <<>>]
    /\ nextq = 0
    /\ lock = "free"
    /\ last_debug = [last_request |-> None, last_response |-> None]
    /\ gstate = [st \in Streams |-> "new"]
    /\ gid = [st \in Streams |-> ""]
    /\ gqueue = [st \in Streams |-> NoQueue]
    /\ hb = [st \in Streams |-> "none"]
    /\ emitted = [st \in Streams |-> <<>>]
    /\ http = NoExchange
    /\ enq = [q \in QueueIds |-> <<>>]
    /\ lastReg = [c \in AllIds |-> NoQueue]
    /\ owed = [st \in Streams |-> FALSE]
    /\ now = 0
    /\ due = [st \in Streams |-> 0]
    /\ hbAt = [q \in QueueIds |-> <<>>]

\* ---------------------------------------------------------------------
\* GET /sse and the event generator
\* ---------------------------------------------------------------------
HeartbeatMsg(client_id) == [type |-> "heartbeat", client_id |-> JStr(client_id)]

\* the two chunks yielded for one queue item
Frame(data) == <<"event: message\n", [data |-> data]>>

\* a generator that keeps _client_lock while it waits on its queue
SseGet_holding_lock(st, client_id) ==
    /\ gstate[st] = "new"
    /\ \A s \in Streams : s < st => gstate[s] # "new"
    /\ lock = "free"
    /\ \E id \in {IF Truthy(client_id) THEN client_id.s ELSE Uuid(st)} :
       \E r \in {_register_client(World, id)} :
          /\ r.w.nextq <= MaxQueues
          /\ clients' = r.w.clients
          /\ nextq' = r.w.nextq
          /\ gid' = [gid EXCEPT ![st] = id]
          /\ gqueue' = [gqueue EXCEPT ![st] = r.q]
          /\ lastReg' = [lastReg EXCEPT ![id] = r.q]
    /\ lock' = "held"
    /\ gstate' = [gstate EXCEPT ![st] = "active"]
    /\ hb' = [hb EXCEPT ![st] = "running"]
    /\ due' = [due EXCEPT ![st] = now + HEARTBEAT_INTERVAL_SEC]
    /\ UNCHANGED <<queue, last_debug, emitted, http, enq, owed, now, hbAt>>

\* sse_get, then the generator up to its first `await queue.get()`:
\* the id (generated when missing or empty), _register_client, and the
\* heartbeat task
SseGet(st, client_id) ==
    /\ gstate[st] = "new"
    /\ \A s \in Streams : s < st => gstate[s] # "new"
    /\ lock = "free"
    /\ \E id \in {IF Truthy(client_id) THEN client_id.s ELSE Uuid(st)} :
       \E r \in {_register_client(World, id)} :
          /\ r.w.nextq <= MaxQueues
          /\ clients' = r.w.clients
          /\ nextq' = r.w.nextq
          /\ gid' = [gid EXCEPT ![st] = id]
          /\ gqueue' = [gqueue EXCEPT ![st] = r.q]
          /\ lastReg' = [lastReg EXCEPT ![id] = r.q]
    /\ lock' = "free"
    /\ gstate' = [gstate EXCEPT ![st] = "active"]
    /\ hb' = [hb EXCEPT ![st] = "running"]
    /\ due' = [due EXCEPT ![st] = now + HEARTBEAT_INTERVAL_SEC]
    /\ UNCHANGED <<queue, last_debug, emitted, http, enq, owed, now, hbAt>>

\* heartbeat(): one iteration after the sleep, queue.put of the marker;
\* the clock is left out, the sleep ends at any moment
HeartbeatTick(st) ==
    /\ hb[st] = "running"
    /\ Len(enq[gqueue[st]]) < MaxEnq
    /\ LET w == Put(World, gqueue[st], HeartbeatMsg(gid[st]))
       IN queue' = w.queue /\ enq' = w.enq
    /\ UNCHANGED <<clients, nextq, lock, last_debug, gstate, gid, gqueue, hb,
                   emitted, http, lastReg, owed, now, due, hbAt>>

\* the same iteration on the clock: asyncio.sleep(HEARTBEAT_INTERVAL_SEC)
\* has ended, the marker is put and the next sleep begins
HeartbeatDue(st) ==
    /\ hb[st] = "running"
    /\ now = due[st]
    /\ Len(enq[gqueue[st]]) < MaxEnq
    /\ LET w == Put(World, gqueue[st], HeartbeatMsg(gid[st]))
       IN queue' = w.queue /\ enq' = w.enq
    /\ due' = [due EXCEPT ![st] = now + HEARTBEAT_INTERVAL_SEC]
    /\ hbAt' = [hbAt EXCEPT ![gqueue[st]] = Append(@, now)]
    /\ UNCHANGED <<clients, nextq, lock, last_debug, gstate, gid, gqueue, hb,
                   emitted, http, lastReg, owed, now>>

\* one second passes; a sleep that has ended is served before the next
Tick ==
    /\ now < MaxTime
    /\ \A st \in Streams : hb[st] = "running" => now < due[st]
    /\ now' = now + 1
    /\ UNCHANGED <<clients, queue, nextq, lock, last_debug, gstate, gid, gqueue,
                   hb, emitted, http, enq, lastReg, owed, due, hbAt>>

\* one iteration of the generator loop: queue.get() returns the oldest
\* item and its frame is yielded
StreamEmit(st) ==
    /\ gstate[st] = "active"
    /\ queue[gqueue[st]] # <<>>
    /\ emitted' = [emitted EXCEPT ![st] = Append(@, Frame(Head(queue[gqueue[st]])))]
    /\ queue' = [queue EXCEPT ![gqueue[st]] = Tail(@)]
    /\ UNCHANGED <<clients, nextq, lock, last_debug, gstate, gid, gqueue, hb,
                   http, enq, lastReg, owed, now, due, hbAt>>

\* the generator is cancelled, closed or fails: the finally block cancels
\* the heartbeat task and unregisters the client id
StreamTerminate(st) ==
    /\ gstate[st] = "active"
    /\ lock = "free"
    /\ hb' = [hb EXCEPT ![st] = "cancelled"]
    /\ clients' = _unregister_client(clients, gid[st])
    /\ lastReg' = [lastReg EXCEPT ![gid[st]] = NoQueue]
    /\ lock' = "free"
    /\ gstate' = [gstate EXCEPT ![st] = "terminated"]
    /\ due' = [due EXCEPT ![st] = 0]
    /\ UNCHANGED <<queue, nextq, last_debug, gid, gqueue, emitted, http, enq,
                   owed, now, hbAt>>

\* ---------------------------------------------------------------------
\* POST /sse and POST /
\* ---------------------------------------------------------------------
Post(body) ==
    /\ lock = "free"
    /\ \E r \in {handle_jsonrpc_envelope(World, body)} :
          /\ \A q \in QueueIds : Len(r.w.enq[q]) <= MaxEnq
          /\ clients' = r.w.clients
          /\ queue' = r.w.queue
          /\ nextq' = r.w.nextq
          /\ enq' = r.w.enq
          /\ last_debug' = r.w.last_debug
          /\ owed' = r.w.owed
          /\ http' = [body |-> body, status |-> r.status, content |-> r.content]
    /\ lock' = "free"
    /\ UNCHANGED <<gstate, gid, gqueue, hb, emitted, lastReg, now, due, hbAt>>

\* the operations of GET /sse
StreamNext ==
    \/ \E st \in Streams, c \in {None} \cup {JStr(i) : i \in ClientIds} :
          SseGet(st, c)
    \/ \E st \in Streams : HeartbeatTick(st)
    \/ \E st \in Streams : StreamEmit(st)
    \/ \E st \in Streams : StreamTerminate(st)

\* the whole server, with the tools/call requests that push
Next ==
    \/ \E st \in Streams, c \in {None} \cup {JStr(i) : i \in ClientIds} :
          SseGet(st, c)
    \/ \E st \in Streams : HeartbeatTick(st)
    \/ \E st \in Streams : StreamEmit(st)
    \/ \E st \in Streams : StreamTerminate(st)
    \/ \E body \in PushBodies : Post(body)

\* subscribers that come and go while tools/call requests push
PushNext ==
    \/ \E st \in Streams, c \in {None} \cup {JStr(i) : i \in ClientIds} :
          SseGet(st, c)
    \/ \E st \in Streams : StreamTerminate(st)
    \/ \E body \in PushBodies : Post(body)

\* the same, with the generators draining their queues
DeliveryNext ==
    \/ \E st \in Streams, c \in {None} \cup {JStr(i) : i \in ClientIds} :
          SseGet(st, c)
    \/ \E st \in Streams : StreamEmit(st)
    \/ \E st \in Streams : StreamTerminate(st)
    \/ \E body \in PushBodies : Post(body)

\* the dispatcher on every kind of body, with at most one subscriber
DispatchNext ==
    \/ SseGet(1, JStr("a"))
    \/ \E body \in DispatchBodies : Post(body)

\* streams and their heartbeat tasks on the clock, with no POST traffic
TimedNext ==
    \/ \E st \in Streams, c \in {None} \cup {JStr(i) : i \in ClientIds} :
          SseGet(st, c)
    \/ \E st \in Streams : HeartbeatDue(st)
    \/ \E st \in Streams : StreamTerminate(st)
    \/ Tick

\* the digits tool called on every integer of a range
DigitsNext ==
    \E n \in (0 - MaxN)..MaxN :
        Post(ToolsCall(JNum(1), "tools/call", "digits", DigitsArgs(JNum(n)), Absent))

\* a tools/call that names "a": _emit_sse looks it up and puts if found
LookupAndPut == ToolsCall(JNum(1), "tools/call", "echo", EchoArgs("hello"), JStr("a"))

\* the operations that take _client_lock: register, unregister, lookup
LockNext ==
    \/ \E st \in Streams, c \in {None, JStr("a")} : SseGet(st, c)
    \/ \E st \in Streams : StreamTerminate(st)
    \/ Post(LookupAndPut)

Spec == Init /\ [][Next]_vars
LockSpec == Init /\ [][LockNext]_vars
DigitsSpec == Init /\ [][DigitsNext]_vars
TimedSpec == Init /\ [][TimedNext]_vars
StreamSpec == Init /\ [][StreamNext]_vars
PushSpec == Init /\ [][PushNext]_vars
DispatchSpec == Init /\ [][DispatchNext]_vars

\* the event loop resumes a generator whose queue has an item
FairSpec ==
    Init /\ [][DeliveryNext]_vars /\ \A st \in Streams : WF_vars(StreamEmit(st))

TypeOK ==
    /\ nextq \in 0..MaxQueues
    /\ lock = "free"
    /\ \A c \in AllIds : clients[c] \in 0..nextq

\* ---------------------------------------------------------------------
\* Properties
\* ---------------------------------------------------------------------
IsPrefix(s, t) == Len(s) <= Len(t) /\ SubSeq(t, 1, Len(s)) = s

\* the queue items carried by a sequence of frames
DataOf(frames) == [i \in 1..Len(frames) |-> frames[i][2].data]

ActiveOn(c) == {st \in Streams : gstate[st] = "active" /\ gid[st] = c}

\* C1: in every reachable state, the frames a stream has emitted so far
\* are, in order, a prefix of everything enqueued on its channel: nothing
\* is skipped, reordered or emitted ahead of an earlier item.
FifoPerStream ==
    \A st \in Streams :
        gstate[st] # "new" => IsPrefix(DataOf(emitted[st]), enq[gqueue[st]])

\* C2: no terminated stream has its heartbeat task still running or the
\* queue it obtained on entry still in the registry.
CleanupOnTermination ==
    \A st \in Streams :
        gstate[st] = "terminated" =>
            /\ hb[st] = "cancelled"
            /\ \A c \in AllIds : clients[c] # gqueue[st]

\* a stream that registered, ran its heartbeat and has terminated
CleanupWitness ==
    \E st \in Streams :
        /\ gstate[st] = "terminated"
        /\ gqueue[st] # NoQueue
        /\ Len(enq[gqueue[st]]) > 0

\* the queues alive for an id: the registered one, those an active stream
\* drains and those a running heartbeat task feeds
LiveQueues(c) ==
    ({clients[c]} \ {NoQueue})
    \cup {gqueue[st] : st \in ActiveOn(c)}
    \cup {gqueue[st] : st \in {s \in Streams : hb[s] = "running" /\ gid[s] = c}}

\* C3: in every reachable state each identifier has at most one live queue.
OneLiveQueuePerId == \A c \in AllIds : Cardinality(LiveQueues(c)) <= 1

\* C4: a register for an id that was registered and not unregistered since
\* returns the queue handed out before and constructs nothing; otherwise it
\* returns a new, empty queue; either way the registry holds what it returned.
RegisterIdempotent ==
    [][\A st \in Streams :
          (gstate[st] = "new" /\ gstate'[st] = "active") =>
              /\ clients'[gid'[st]] = gqueue'[st]
              /\ \A c \in AllIds \ {gid'[st]} : clients'[c] = clients[c]
              /\ IF lastReg[gid'[st]] # NoQueue
                   THEN gqueue'[st] = lastReg[gid'[st]] /\ nextq' = nextq
                   ELSE /\ gqueue'[st] = nextq + 1
                        /\ nextq' = nextq + 1
                        /\ queue[gqueue'[st]] = <<>>
                        /\ \A s \in Streams : gqueue[s] # gqueue'[st]]_vars

\* two streams registered the same id, no unregister between, one queue
RegisterTwiceWitness ==
    \E s1, s2 \in Streams :
        /\ s1 # s2
        /\ gstate[s1] = "active" /\ gstate[s2] = "active"
        /\ gid[s1] = gid[s2]
        /\ gqueue[s1] = gqueue[s2]
        /\ clients[gid[s1]] = gqueue[s1]

ClientIdOfBody(body) == Get(Get(body, "params"), "client_id")

\* C5: a tools/call naming a client id that is not in the registry answers
\* 200 with its result and no error, and changes neither the registry nor
\* any queue, and constructs no queue.
PushToUnknownIsNoOp ==
    [][\A body \in PushBodies :
          (/\ http'.body = body
           /\ Post(body)
           /\ Truthy(ClientIdOfBody(body))
           /\ Lookup(clients, ClientIdOfBody(body)) = NoQueue) =>
              /\ http'.status = 200
              /\ DOMAIN http'.content = {"jsonrpc", "id", "result"}
              /\ clients' = clients
              /\ nextq' = nextq
              /\ queue' = queue
              /\ enq' = enq]_vars

\* a successful call naming "a" was answered before any queue existed
PushToUnknownWitness ==
    /\ nextq = 0
    /\ http.status = 200
    /\ ClientIdOfBody(http.body) = JStr("a")
    /\ "result" \in DOMAIN http.content

\* the identifier of a batch element (an element that is no object has none)
EntryId(entry) == IF IsDict(entry) THEN Get(entry, "id") ELSE None

\* C6: a body that is an array of k elements is answered by an array of
\* exactly k responses, the i-th carrying the i-th element's identifier,
\* whatever is wrong with the individual elements.
BatchAnsweredInOrder ==
    IsList(http.body) =>
        /\ http.status = 200
        /\ Len(http.content.a) = Len(http.body.a)
        /\ \A i \in 1..Len(http.body.a) :
              http.content.a[i].id = EntryId(http.body.a[i])

IsError(resp, code) ==
    /\ "error" \in DOMAIN resp
    /\ "result" \notin DOMAIN resp
    /\ resp.error.code = code

\* C7: a request object whose "jsonrpc" key is present with any value other
\* than "2.0" is answered by an invalid-request error carrying its id.
VersionChecked ==
    (/\ IsDict(http.body)
     /\ "jsonrpc" \in DOMAIN http.body.f
     /\ http.body.f["jsonrpc"] # JStr("2.0")) =>
        /\ IsError(http.content, CODE_INVALID_REQUEST)
        /\ http.content.id = Get(http.body, "id")

\* the slash spelling of each dot spelling
SlashOf ==
    [m \in {"notifications.initialized", "tools.list", "tools.call"} |->
        CASE m = "notifications.initialized" -> "notifications/initialized"
          [] m = "tools.list" -> "tools/list"
          [] m = "tools.call" -> "tools/call"]

MethodOf(body) == Get(body, "method")

\* the same request under another method name
WithMethod(body, m) == JObj([body.f EXCEPT !["method"] = JStr(m)])

\* the request was answered exactly as its slash spelling is, and not with
\* 'method not found'
AnsweredAsSlash(body, content) ==
    /\ content = handle_jsonrpc_one(World, WithMethod(body, SlashOf[MethodOf(body).s])).resp
    /\ ~IsError(content, CODE_METHOD_NOT_FOUND)

\* C8 as claimed: each of the four methods is accepted under its slash and
\* its dot spelling, and both spellings get the same response.
AllMethodsAliased ==
    IsDict(http.body) =>
        /\ MethodOf(http.body) \in {JStr(m) : m \in HandledMethods} =>
              ~IsError(http.content, CODE_METHOD_NOT_FOUND)
        /\ MethodOf(http.body) \in {JStr(m) : m \in DOMAIN SlashOf} =>
              AnsweredAsSlash(http.body, http.content)

\* C8, amended: the four slash spellings are accepted; tools.list and
\* tools.call are answered exactly as tools/list and tools/call are;
\* notifications.initialized, with the supported version, is answered
\* 'method not found'.
ToolMethodsAliased ==
    IsDict(http.body) =>
        /\ MethodOf(http.body) \in {JStr(m) : m \in HandledMethods} =>
              ~IsError(http.content, CODE_METHOD_NOT_FOUND)
        /\ MethodOf(http.body) \in {JStr("tools.list"), JStr("tools.call")} =>
              AnsweredAsSlash(http.body, http.content)
        /\ (/\ MethodOf(http.body) = JStr("notifications.initialized")
            /\ OrElse(Get(http.body, "jsonrpc"), JStr("2.0")) = JStr("2.0")) =>
              IsError(http.content, CODE_METHOD_NOT_FOUND)

\* a tools.call and a tools.list were answered with a result
DotSpellingWitness ==
    /\ IsDict(http.body)
    /\ MethodOf(http.body) = JStr("tools.call")
    /\ "result" \in DOMAIN http.content
    /\ Get(last_debug.last_request, "method") = JStr("tools.call")

HasToolResult(frames) ==
    \E i \in 1..Len(frames) : frames[i][2].data.type = "tool_result"

\* C9: once a tools/call naming the id of an active stream has succeeded,
\* that stream eventually emits a tool_result frame, unless it leaves Active.
NotificationDelivered ==
    \A st \in Streams :
        owed[st] ~> (HasToolResult(emitted[st]) \/ gstate[st] # "active")

\* the request was answered with a result
Succeeded(exchange) ==
    exchange.status = 200 /\ "result" \in DOMAIN exchange.content

\* exactly one tool_result was put on queue q, and nothing anywhere else
PushedOneOn(q) ==
    /\ Len(enq'[q]) = Len(enq[q]) + 1
    /\ enq'[q][Len(enq'[q])].type = "tool_result"
    /\ enq'[q][Len(enq'[q])].result = http'.content.result
    /\ SubSeq(enq'[q], 1, Len(enq[q])) = enq[q]
    /\ queue'[q] = Append(queue[q], enq'[q][Len(enq'[q])])
    /\ \A o \in QueueIds \ {q} : enq'[o] = enq[o] /\ queue'[o] = queue[o]

ArgumentsClientId(body) ==
    Get(Get(Get(body, "params"), "arguments"), "client_id")

\* C10 as claimed: a successful tools/call whose `arguments` carry the id
\* of a registered session puts exactly one tool_result on that session's
\* queue and on no other; one that carries no id puts nothing.
PushFromArguments ==
    [][\A body \in PushBodies :
          (http'.body = body /\ Post(body) /\ Succeeded(http')) =>
              IF Lookup(clients, ArgumentsClientId(body)) # NoQueue
                THEN PushedOneOn(Lookup(clients, ArgumentsClientId(body)))
                ELSE (ArgumentsClientId(body) = None /\ ClientIdOfBody(body) = None)
                        => (enq' = enq /\ queue' = queue)]_vars

\* C10, amended: the id is the `client_id` key of `params`; an id inside
\* `arguments` is ignored.
PushFromParams ==
    [][\A body \in PushBodies :
          (http'.body = body /\ Post(body) /\ Succeeded(http')) =>
              IF Lookup(clients, ClientIdOfBody(body)) # NoQueue
                THEN PushedOneOn(Lookup(clients, ClientIdOfBody(body)))
                ELSE enq' = enq /\ queue' = queue]_vars

\* "a" and "b" are registered on different queues and a call naming "a"
\* has put its notification on the queue of "a" only
PushWitness ==
    /\ clients["a"] # NoQueue /\ clients["b"] # NoQueue
    /\ IsDict(http.body) /\ Succeeded(http)
    /\ ClientIdOfBody(http.body) = JStr("a")
    /\ Len(enq[clients["a"]]) = 1
    /\ enq[clients["a"]][1].type = "tool_result"
    /\ enq[clients["b"]] = <<>>

\* the "jsonrpc" key is missing or holds the supported version
SupportedVersion(body) ==
    "jsonrpc" \notin DOMAIN body.f \/ body.f["jsonrpc"] = JStr("2.0")

\* the method names the dispatcher routes to a handler
Routed(method) ==
    \/ method \in {JStr(m) : m \in HandledMethods}
    \/ method \in {JStr("tools.list"), JStr("tools.call")}

\* C11: a request object with the supported version whose method is not
\* routed to a handler (or is absent) is answered 200 with a 'method not
\* found' error carrying the request's id; the registry, every queue and
\* the debug record of the handlers are left as they were.
UnknownMethodRefused ==
    [][\A body \in SingleBodies :
          (/\ http'.body = body
           /\ Post(body)
           /\ SupportedVersion(body)
           /\ ~Routed(MethodOf(body))) =>
              /\ http'.status = 200
              /\ IsError(http'.content, CODE_METHOD_NOT_FOUND)
              /\ http'.content.id = Get(body, "id")
              /\ clients' = clients /\ nextq' = nextq
              /\ queue' = queue /\ enq' = enq
              /\ last_debug' = last_debug]_vars

\* an unknown method with id "x" was refused while "a" was registered
UnknownMethodWitness ==
    /\ IsDict(http.body)
    /\ MethodOf(http.body) = JStr("bogus/method")
    /\ IsError(http.content, CODE_METHOD_NOT_FOUND)
    /\ http.content.id = JStr("x")
    /\ clients["a"] # NoQueue

\* one JSON-RPC response: version, the given id, and a result or an error
\* but not both
WellFormed(resp, id) ==
    /\ DOMAIN resp \in {{"jsonrpc", "id", "result"}, {"jsonrpc", "id", "error"}}
    /\ resp.jsonrpc = "2.0"
    /\ resp.id = id

\* C12: every entry handed to the dispatcher, alone or in a batch, gets
\* exactly one response with the entry's id (null when it has none) and
\* exactly one of result and error; no failure leaves the dispatcher.
EveryEntryAnswered ==
    /\ IsDict(http.body) =>
          /\ http.status = 200
          /\ WellFormed(http.content, Get(http.body, "id"))
    /\ IsList(http.body) =>
          /\ http.status = 200
          /\ IsList(http.content)
          /\ DOMAIN http.content.a = DOMAIN http.body.a
          /\ \A i \in DOMAIN http.body.a :
                WellFormed(http.content.a[i], EntryId(http.body.a[i]))

\* a single tools/call request that passes the version check
IsCallBody(body) ==
    /\ IsDict(body)
    /\ SupportedVersion(body)
    /\ MethodOf(body) \in {JStr("tools/call"), JStr("tools.call")}

ParamsOf(body) == Get(body, "params")

RequiredArg(name) == IF name = JStr("digits") THEN "number" ELSE "text"

\* params are an object naming an existing tool, with an arguments object
\* that holds the tool's required argument
Accepted(params) ==
    /\ IsDict(params)
    /\ Get(params, "name") \in {JStr("digits"), JStr("echo")}
    /\ IsDict(Get(params, "arguments"))
    /\ RequiredArg(Get(params, "name")) \in DOMAIN Get(params, "arguments").f

\* what the call needs beyond presence: a number int() accepts, and a
\* client id that can be a dictionary key when one is given
Usable(params) ==
    /\ Get(params, "name") = JStr("digits") =>
          PyInt(Get(params, "arguments").f["number"]).ok
    /\ Truthy(Get(params, "client_id")) =>
          Get(params, "client_id").t \notin {"arr", "obj"}

OneTextBlock(result) ==
    /\ DOMAIN result = {"content"}
    /\ Len(result.content) = 1
    /\ result.content[1].type = "text"

ResultWithOneTextBlock(resp) ==
    /\ DOMAIN resp = {"jsonrpc", "id", "result"}
    /\ OneTextBlock(resp.result)

IsResponseObject(content) == "jsonrpc" \in DOMAIN content
IsResponseArray(content) == "t" \in DOMAIN content /\ content.t = "arr"

\* C14: an object is answered by one response object, an array (empty or
\* not, whatever its entries are) by an array, and a string, number,
\* boolean or null by one 'invalid request' error with a null id.
EnvelopeMirrored ==
    /\ IsDict(http.body) =>
          IsResponseObject(http.content) /\ ~IsResponseArray(http.content)
    /\ IsList(http.body) => IsResponseArray(http.content)
    /\ http.body.t \in {"str", "num", "bool", "null"} =>
          /\ IsError(http.content, CODE_INVALID_REQUEST)
          /\ http.content.id = None

\* C15: any two heartbeat markers put on the same channel are at least
\* one interval apart, and while a stream is active the next marker of its
\* heartbeat task is due within one interval.
HeartbeatRate ==
    /\ \A q \in QueueIds : \A i, j \in DOMAIN hbAt[q] :
          i < j => hbAt[q][j] - hbAt[q][i] >= HEARTBEAT_INTERVAL_SEC
    /\ \A st \in Streams :
          gstate[st] = "active" =>
              due[st] \in now..(now + HEARTBEAT_INTERVAL_SEC)

\* the sum of the decimal digits of a number below 1000, and that sum
\* taken three times, which leaves one digit
Sum3(m) == (m \div 100) + ((m \div 10) % 10) + (m % 10)
RepeatedDigitSum(m) == Sum3(Sum3(Sum3(m)))

\* the integer a digits call was given
NumberOf(body) == Get(Get(ParamsOf(body), "arguments"), "number")

IsDigitsCall(body) ==
    /\ IsCallBody(body)
    /\ IsDict(ParamsOf(body))
    /\ Get(ParamsOf(body), "name") = JStr("digits")
    /\ IsDict(Get(ParamsOf(body), "arguments"))
    /\ NumberOf(body).t = "num"

\* C16: for the integer n a digits call was given, reduce_to_single_digit
\* returns a value of 0..9 that is the repeated digit sum of |n|, 0 for 0,
\* the same for -n, and unchanged when reduced again; the call answers it.
DigitalRoot ==
    (IsDigitsCall(http.body) /\ Abs(NumberOf(http.body).n) < 1000) =>
        LET n == NumberOf(http.body).n
            r == reduce_to_single_digit(n)
        IN /\ r \in 0..9
           /\ r = RepeatedDigitSum(Abs(n))
           /\ n = 0 => r = 0
           /\ reduce_to_single_digit(0 - n) = r
           /\ reduce_to_single_digit(r) = r
           /\ http.content.result = TextContent(IntStr(r))

\* the call on -199, whose digits have to be summed three times
DigitalRootWitness ==
    /\ IsDigitsCall(http.body)
    /\ NumberOf(http.body).n = 0 - 199
    /\ http.content.result = TextContent("1")

\* C17: a heartbeat task puts its marker only while its stream is active
\* and the queue it feeds is the one registered for its client id; no
\* marker is put on a queue that has been removed from the registry.
HeartbeatRespectsTeardown ==
    [][\A st \in Streams :
          HeartbeatTick(st) =>
              /\ gstate[st] = "active"
              /\ clients[gid[st]] = gqueue[st]]_vars

\* the stream that serves the next GET /sse
NextStream(st) == gstate[st] = "new" /\ \A s \in Streams : s < st => gstate[s] # "new"

\* C18: while any stream is suspended on its queue (empty or not), the
\* registry lock is free and every registry operation can run at once: the
\* unregister of each active stream, a register of each registered id, and
\* the lookup of a tools/call that names a client id.
LockFreeAcrossWait ==
    (\E st \in Streams : gstate[st] = "active") =>
        /\ lock = "free"
        /\ \A st \in Streams :
              gstate[st] = "active" => ENABLED StreamTerminate(st)
        /\ \A st \in Streams, c \in ClientIds :
              (NextStream(st) /\ clients[c] # NoQueue) => ENABLED SseGet(st, JStr(c))
        /\ (clients["a"] = NoQueue \/ Len(enq[clients["a"]]) < MaxEnq) =>
              ENABLED Post(LookupAndPut)

\* one stream waits on an empty queue while another id has been
\* registered, a stream has unregistered and a tools/call has pushed
LockFreeWitness ==
    \E s1, s2, s3 \in Streams :
        /\ gstate[s1] = "active" /\ queue[gqueue[s1]] = <<>>
        /\ gstate[s2] = "active" /\ gqueue[s2] # gqueue[s1]
        /\ queue[gqueue[s2]] # <<>>
        /\ gstate[s3] = "terminated"
        /\ http.status = 200

\* C19: in every reachable state the registry maps the client id of each
\* active stream to the queue that stream is draining.
ActiveStreamReachable ==
    \A st \in Streams :
        gstate[st] = "active" => clients[gid[st]] = gqueue[st]

\* the step left the registry and every queue as they were
RegistryAndQueuesUnchanged ==
    /\ clients' = clients /\ nextq' = nextq
    /\ queue' = queue /\ enq' = enq

\* C20: a tools/call answered with an error leaves the registry and every
\* queue unchanged, whatever client id it carries; a step that enqueues
\* was answered with a result and enqueued one tool_result carrying that
\* result.  A batch whose entries were all answered with errors leaves
\* them unchanged too.
FailedCallPushesNothing ==
    [][/\ \A body \in SingleBodies :
             (http'.body = body /\ Post(body) /\ IsCallBody(body)) =>
                 /\ "error" \in DOMAIN http'.content => RegistryAndQueuesUnchanged
                 /\ enq' # enq =>
                       /\ Succeeded(http')
                       /\ \E q \in QueueIds : PushedOneOn(q)
       /\ \A body \in BatchBodies :
             (/\ http'.body = body
              /\ Post(body)
              /\ http'.status = 200
              /\ \A i \in DOMAIN http'.content.a :
                    "error" \in DOMAIN http'.content.a[i]) =>
                 RegistryAndQueuesUnchanged]_vars

\* a call that named the registered session "a" was refused, and the
\* queue of "a" has never held anything
FailedCallWitness ==
    /\ IsCallBody(http.body)
    /\ IsDict(ParamsOf(http.body))
    /\ ClientIdOfBody(http.body) = JStr("a")
    /\ clients["a"] # NoQueue
    /\ IsError(http.content, CODE_SERVER_ERROR)
    /\ enq[clients["a"]] = <<>>
====
